---------------------------- MODULE Spec2Model ----------------------------
(***************************************************************************)
(* Model of src/search/algorithms.py: the State entity and the two search  *)
(* engines Dijkstra and AStar that share the OPEN heap / CLOSED dictionary *)
(* scaffolding of class Search.                                            *)
(*                                                                         *)
(* Numbers.  The program works with the costs 1.0 (cardinal move) and 1.5  *)
(* (diagonal move) and with the factor 0.5 of the heuristic.  Every cost   *)
(* of the model (g, h, cost, the values of CLOSED, the returned cost) is   *)
(* the program's value multiplied by two, so that it is an integer: a      *)
(* cardinal move costs 2, a diagonal move 3, h = 2*max + min, and the      *)
(* sentinel cost -1 of "no path" is the integer -2.  Expansion counts are  *)
(* not scaled.                                                             *)
(***************************************************************************)
EXTENDS Integers, Sequences, FiniteSets, TLC

VARIABLES
    map,            \* the map collaborator the engine was constructed on
    alg,            \* class of the engine instance: "Dijkstra" or "AStar"
    OPEN,           \* self.OPEN, the heapq array (a sequence, root first)
    CLOSED,         \* self.CLOSED, a dictionary keyed by state_hash
    goal,           \* the goal of the running call (self.goal in AStar)
    node_expanded,  \* local counter of search
    node,           \* local: the state popped last
    todo,           \* local: what is left of the for loop over successors
    pc,             \* "idle", "loop" (while test), "expand" (for loop), "done"
    result,         \* the pair returned by the last call
    start,          \* history: the start state of the running call
    calls,          \* history: number of search calls made on the instance
    pops,           \* history: what was popped in this call, in order
    succ_calls      \* history: calls of map.successors made in this call

vars == <<map, alg, OPEN, CLOSED, goal, node_expanded, node, todo, pc,
          result, start, calls, pops, succ_calls>>

(***************************************************************************)
(* Bounds of the model.                                                    *)
(***************************************************************************)
\* sequential search calls made on one engine instance
MaxCalls == 2

\* obstacles placed on the small grids that are enumerated exhaustively
MaxBlocked == 2

(***************************************************************************)
(* Small helpers.                                                          *)
(***************************************************************************)
Abs(n) == IF n < 0 THEN -n ELSE n

Max(a, b) == IF a >= b THEN a ELSE b

Min(a, b) == IF a <= b THEN a ELSE b

\* the smallest element of a non-empty set of integers
SetMin(S) == CHOOSE m \in S : \A n \in S : m <= n

(***************************************************************************)
(* class State                                                             *)
(***************************************************************************)
\* State.__init__: g, h and cost start at 0
NewState(x, y) == [x |-> x, y |-> y, g |-> 0, h |-> 0, cost |-> 0]

\* value of a local that holds no state
None == [x |-> -1, y |-> -1, g |-> 0, h |-> 0, cost |-> 0]

\* State.__lt__
Lt(a, b) == a.cost < b.cost

\* State.map_width, the class variable the map sets to its width
map_width == map.width

\* a slip that follows the docstring of state_hash (x * map_width + y)
state_hash_docstring(s) == s.x * map_width + s.y

\* State.state_hash
state_hash(s) == s.y * map_width + s.x

\* State.__eq__
Eq(a, b) == a.x = b.x /\ a.y = b.y

(***************************************************************************)
(* heapq, as the engines use it: a binary min-heap in an array, compared   *)
(* with State.__lt__.  Positions are 0-based as in heapq; heap[p + 1] is   *)
(* the entry at position p.                                                *)
(***************************************************************************)
RECURSIVE SiftDownPos(_, _, _, _)
\* heapq._siftdown: the position where newitem ends up; parents are moved down
SiftDownPos(heap, startpos, pos, newitem) ==
    IF pos > startpos /\ Lt(newitem, heap[((pos - 1) \div 2) + 1])
    THEN SiftDownPos(heap, startpos, (pos - 1) \div 2, newitem)
    ELSE pos

RECURSIVE SiftDownMove(_, _, _, _)
\* heapq._siftdown: the array after the parents on the way were moved down
SiftDownMove(heap, startpos, pos, newitem) ==
    IF pos > startpos /\ Lt(newitem, heap[((pos - 1) \div 2) + 1])
    THEN SiftDownMove([heap EXCEPT ![pos + 1] = heap[((pos - 1) \div 2) + 1]],
                      startpos, (pos - 1) \div 2, newitem)
    ELSE heap

\* heapq._siftdown(heap, startpos, pos)
siftdown(heap, startpos, pos) ==
    LET newitem == heap[pos + 1]
        final   == SiftDownPos(heap, startpos, pos, newitem)
        moved   == SiftDownMove(heap, startpos, pos, newitem)
    IN  [moved EXCEPT ![final + 1] = newitem]

\* heapq._siftup: the child that is moved up from below pos
SmallerChild(heap, pos) ==
    LET childpos == 2 * pos + 1
        rightpos == childpos + 1
    IN  IF rightpos < Len(heap) /\ ~Lt(heap[childpos + 1], heap[rightpos + 1])
        THEN rightpos
        ELSE childpos

RECURSIVE SiftUpLeaf(_, _)
\* heapq._siftup: the leaf reached by following the smaller children
SiftUpLeaf(heap, pos) ==
    IF 2 * pos + 1 < Len(heap)
    THEN SiftUpLeaf(heap, SmallerChild(heap, pos))
    ELSE pos

RECURSIVE SiftUpMove(_, _)
\* heapq._siftup: the array after the smaller children were moved up
SiftUpMove(heap, pos) ==
    IF 2 * pos + 1 < Len(heap)
    THEN LET c == SmallerChild(heap, pos)
         IN  SiftUpMove([heap EXCEPT ![pos + 1] = heap[c + 1]], c)
    ELSE heap

\* heapq._siftup(heap, pos)
siftup(heap, pos) ==
    LET newitem == heap[pos + 1]
        leaf    == SiftUpLeaf(heap, pos)
        moved   == SiftUpMove(heap, pos)
    IN  siftdown([moved EXCEPT ![leaf + 1] = newitem], pos, leaf)

\* heapq.heappush(heap, item)
heappush(heap, item) == siftdown(Append(heap, item), 0, Len(heap))

\* heapq.heappop(heap): <<the item returned, the heap left>>
heappop(heap) ==
    LET lastelt == heap[Len(heap)]
        rest    == SubSeq(heap, 1, Len(heap) - 1)
    IN  IF rest = <<>>
        THEN <<lastelt, rest>>
        ELSE <<rest[1], siftup([rest EXCEPT ![1] = lastelt], 0)>>

RECURSIVE HeapifyFrom(_, _)
\* heapq.heapify: for i in reversed(range(n // 2)): _siftup(x, i)
HeapifyFrom(heap, i) ==
    IF i < 0 THEN heap ELSE HeapifyFrom(siftup(heap, i), i - 1)

\* heapq.heapify(heap)
heapify(heap) == HeapifyFrom(heap, (Len(heap) \div 2) - 1)


(***************************************************************************)
(* The map collaborator.  A map is a record: kind "grid" is an 8-connected *)
(* grid of width x height cells, some of them blocked; kind "graph" is a   *)
(* map whose positions are (0,0) .. (width-1,0) and whose moves are the    *)
(* arcs <<from x, to x, cost>> it lists.                                   *)
(***************************************************************************)
\* the neighbour offsets (i, j) in the order successors generates them
Offsets ==
    << <<-1, -1>>, <<-1, 0>>, <<-1, 1>>, <<0, -1>>,
       <<0, 1>>, <<1, -1>>, <<1, 0>>, <<1, 1>> >>

\* cost of the move by offset (i, j): 1.0 cardinal, 1.5 diagonal (doubled)
move_cost(i, j) == IF i = 0 \/ j = 0 THEN 2 ELSE 3

\* the cells of a map
Cells(m) == (0 .. m.width - 1) \X (0 .. m.height - 1)

\* a position a state may stand on
is_valid_pair(m, x, y) ==
    /\ x >= 0 /\ x < m.width
    /\ y >= 0 /\ y < m.height
    /\ <<x, y>> \notin m.blocked

\* a state at position (x, y) stamped with the cumulative cost g
Stamped(x, y, g) == [NewState(x, y) EXCEPT !.g = g]

\* map.successors(n) on a grid
GridSuccessors(m, n) ==
    LET Valid(o) == is_valid_pair(m, n.x + o[1], n.y + o[2])
        offs     == SelectSeq(Offsets, Valid)
    IN  [k \in 1 .. Len(offs) |->
            Stamped(n.x + offs[k][1], n.y + offs[k][2],
                    n.g + move_cost(offs[k][1], offs[k][2]))]

\* map.successors(n) on a graph
GraphSuccessors(m, n) ==
    LET Leaves(a) == a[1] = n.x /\ n.y = 0
        out       == SelectSeq(m.arcs, Leaves)
    IN  [k \in 1 .. Len(out) |-> Stamped(out[k][2], 0, n.g + out[k][3])]

\* self.map.successors(n)
successors(n) ==
    IF map.kind = "grid" THEN GridSuccessors(map, n) ELSE GraphSuccessors(map, n)

(***************************************************************************)
(* The engine.  A frame is the engine's fields together with the locals of *)
(* the running search call; every step of search maps a frame to a frame.  *)
(***************************************************************************)
\* the value of result while no call has returned
NoResult == <<>>

\* the fields and locals as one record
Frame ==
    [OPEN |-> OPEN, CLOSED |-> CLOSED, goal |-> goal,
     node_expanded |-> node_expanded, node |-> node, todo |-> todo,
     pc |-> pc, result |-> result]

\* Search.__init__
NewEngine ==
    [OPEN |-> <<>>, CLOSED |-> <<>>, goal |-> None, node_expanded |-> 0,
     node |-> None, todo |-> <<>>, pc |-> "idle", result |-> NoResult]

\* a slip: the diagonal part of the estimate weighted 1.0 instead of 0.5
h_value_unit_factor(f, state) ==
    LET x == Abs(state.x - f.goal.x)
        y == Abs(state.y - f.goal.y)
    IN  2 * Max(x, y) + 2 * Min(x, y)

\* AStar.h_value, with dx, dy the distances to self.goal
h_value(f, state) ==
    LET x == Abs(state.x - f.goal.x)
        y == Abs(state.y - f.goal.y)
    IN  2 * Max(x, y) + Min(x, y)

\* a slip: search starts on what the previous call left in OPEN and CLOSED
BeginNoReset(a, f, s, gl) ==
    [f EXCEPT !.OPEN = heappush(f.OPEN, s),
              !.CLOSED = IF a = "Dijkstra"
                         THEN (state_hash(s) :> s.cost) @@ f.CLOSED
                         ELSE f.CLOSED,
              !.goal = gl, !.node_expanded = 0, !.pc = "loop",
              !.result = NoResult]

\* search of class a, up to the while loop
Begin(a, f, s, gl) ==
    [f EXCEPT !.OPEN = heappush(<<>>, s),
              !.CLOSED = IF a = "Dijkstra"
                         THEN (state_hash(s) :> s.cost)
                         ELSE <<>>,
              !.goal = gl, !.node_expanded = 0, !.pc = "loop",
              !.result = NoResult]

\* a slip: the sentinel carries the number of pops made
ExhaustCounting(f) ==
    [f EXCEPT !.result = <<-2, f.node_expanded>>, !.pc = "done",
              !.node = None, !.todo = <<>>]

\* the while loop found OPEN empty: return -1, 0
Exhaust(f) ==
    [f EXCEPT !.result = <<-2, 0>>, !.pc = "done", !.node = None, !.todo = <<>>]

\* the popped node is the goal: return cost, node_expanded
ReturnGoal(a, f, n, heap, count) ==
    [f EXCEPT !.OPEN = heap, !.node_expanded = count,
              !.result = <<IF a = "Dijkstra"
                           THEN f.CLOSED[state_hash(n)]
                           ELSE n.cost,
                           count>>,
              !.pc = "done", !.node = None, !.todo = <<>>]

\* the popped node is not the goal: enter the for loop over its successors
Expand(a, f, n, heap, count) ==
    LET children == successors(n)
    IN  [f EXCEPT !.OPEN = heap, !.node_expanded = count, !.node = n,
                  !.CLOSED = IF a = "AStar"
                             THEN (state_hash(n) :> n) @@ f.CLOSED
                             ELSE f.CLOSED,
                  !.todo = children,
                  !.pc = IF children = <<>> THEN "loop" ELSE "expand"]

\* a slip: the counter is incremented after the goal test
PopCountAfterTest(a, f) ==
    LET popped == heappop(f.OPEN)
        n      == popped[1]
    IN  IF Eq(n, f.goal)
        THEN ReturnGoal(a, f, n, popped[2], f.node_expanded)
        ELSE Expand(a, f, n, popped[2], f.node_expanded + 1)

\* one pass of the while loop up to the for loop: pop, count, test the goal
Pop(a, f) ==
    LET popped == heappop(f.OPEN)
        n      == popped[1]
        count  == f.node_expanded + 1
    IN  IF Eq(n, f.goal)
        THEN ReturnGoal(a, f, n, popped[2], count)
        ELSE Expand(a, f, n, popped[2], count)

\* a slip: the cheaper path to a recorded position is never recorded
DijkstraCaseNoImprove(f, n_prime) ==
    IF state_hash(n_prime) \notin DOMAIN f.CLOSED THEN "push" ELSE "discard"

\* a slip: the comparison of the relaxation is the wrong way round
DijkstraCaseGreater(f, n_prime) ==
    IF state_hash(n_prime) \notin DOMAIN f.CLOSED THEN "push"
    ELSE IF n_prime.g > f.CLOSED[state_hash(n_prime)] THEN "improve"
    ELSE "discard"

\* the branch of Dijkstra's for loop a successor takes
DijkstraCase(f, n_prime) ==
    IF state_hash(n_prime) \notin DOMAIN f.CLOSED THEN "push"
    ELSE IF n_prime.g < f.CLOSED[state_hash(n_prime)] THEN "improve"
    ELSE "discard"

\* a slip: an improved successor is pushed as a second entry of its position
DijkstraRelaxPushImproved(f, n_prime) ==
    LET child == [n_prime EXCEPT !.cost = n_prime.g]
        key   == state_hash(n_prime)
        case  == DijkstraCase(f, n_prime)
    IN  IF case = "push"
        THEN [f EXCEPT !.OPEN = heappush(f.OPEN, child),
                       !.CLOSED = (key :> child.cost) @@ f.CLOSED]
        ELSE IF case = "improve"
        THEN [f EXCEPT !.OPEN = heappush(f.OPEN, child),
                       !.CLOSED = [f.CLOSED EXCEPT ![key] = child.g]]
        ELSE f

\* a slip: the cost of a successor is not set before it is pushed and recorded
DijkstraRelaxUnsetCost(f, n_prime) ==
    LET child == n_prime
        key   == state_hash(n_prime)
        case  == DijkstraCase(f, n_prime)
    IN  IF case = "push"
        THEN [f EXCEPT !.OPEN = heappush(f.OPEN, child),
                       !.CLOSED = (key :> child.cost) @@ f.CLOSED]
        ELSE IF case = "improve"
        THEN [f EXCEPT !.OPEN = heapify(f.OPEN),
                       !.CLOSED = [f.CLOSED EXCEPT ![key] = child.g]]
        ELSE f

\* body of Dijkstra's for loop for the successor n_prime
DijkstraRelax(f, n_prime) ==
    LET child == [n_prime EXCEPT !.cost = n_prime.g]
        key   == state_hash(n_prime)
        case  == DijkstraCase(f, n_prime)
    IN  IF case = "push"
        THEN [f EXCEPT !.OPEN = heappush(f.OPEN, child),
                       !.CLOSED = (key :> child.cost) @@ f.CLOSED]
        ELSE IF case = "improve"
        THEN [f EXCEPT !.OPEN = heapify(f.OPEN),
                       !.CLOSED = [f.CLOSED EXCEPT ![key] = child.g]]
        ELSE f

\* self.OPEN.index(n_prime): 1-based position of the first equal entry, 0 if none
IndexInOpen(heap, n_prime) ==
    LET hits == {i \in 1 .. Len(heap) : Eq(heap[i], n_prime)}
    IN  IF hits = {} THEN 0 ELSE SetMin(hits)

\* a slip: a successor is not looked up in CLOSED
AStarCaseNoClosedCheck(f, n_prime) ==
    IF IndexInOpen(f.OPEN, n_prime) = 0 THEN "push"
    ELSE IF n_prime.g < f.OPEN[IndexInOpen(f.OPEN, n_prime)].g THEN "improve"
    ELSE "keep"

\* a slip: a successor is not looked up in OPEN
AStarCaseNoOpenScan(f, n_prime) ==
    IF state_hash(n_prime) \in DOMAIN f.CLOSED THEN "closed" ELSE "push"

\* the branch of AStar's for loop a successor takes
AStarCase(f, n_prime) ==
    IF state_hash(n_prime) \in DOMAIN f.CLOSED THEN "closed"
    ELSE IF IndexInOpen(f.OPEN, n_prime) = 0 THEN "push"
    ELSE IF n_prime.g < f.OPEN[IndexInOpen(f.OPEN, n_prime)].g THEN "improve"
    ELSE "keep"

\* a slip: an entry of OPEN is never improved
AStarRelaxNoImprove(f, n_prime) ==
    IF AStarCase(f, n_prime) = "push"
    THEN [f EXCEPT !.OPEN =
             heappush(f.OPEN,
                      [n_prime EXCEPT !.cost = n_prime.g + h_value(f, n_prime)])]
    ELSE f

\* a slip: an improved entry is overwritten in place and OPEN is not re-heapified
AStarRelaxNoHeapify(f, n_prime) ==
    LET case == AStarCase(f, n_prime)
        i    == IndexInOpen(f.OPEN, n_prime)
    IN  IF case = "push"
        THEN [f EXCEPT !.OPEN =
                 heappush(f.OPEN,
                          [n_prime EXCEPT !.cost = n_prime.g + h_value(f, n_prime)])]
        ELSE IF case = "improve"
        THEN [f EXCEPT !.OPEN =
                 [f.OPEN EXCEPT
                    ![i] = [f.OPEN[i] EXCEPT
                              !.g = n_prime.g,
                              !.cost = n_prime.g + h_value(f, f.OPEN[i])]]]
        ELSE f

\* body of AStar's for loop for the successor n_prime
AStarRelax(f, n_prime) ==
    LET case == AStarCase(f, n_prime)
        i    == IndexInOpen(f.OPEN, n_prime)
    IN  IF case = "push"
        THEN [f EXCEPT !.OPEN =
                 heappush(f.OPEN,
                          [n_prime EXCEPT !.cost = n_prime.g + h_value(f, n_prime)])]
        ELSE IF case = "improve"
        THEN [f EXCEPT !.OPEN =
                 heapify([f.OPEN EXCEPT
                            ![i] = [f.OPEN[i] EXCEPT
                                      !.g = n_prime.g,
                                      !.cost = n_prime.g + h_value(f, f.OPEN[i])]])]
        ELSE f

\* the branch the next successor of the for loop of class a takes
Case(a, f) ==
    IF a = "Dijkstra" THEN DijkstraCase(f, Head(f.todo)) ELSE AStarCase(f, Head(f.todo))

\* a slip: the counter also counts the states pushed into OPEN
RelaxCounting(a, f) ==
    LET n_prime == Head(f.todo)
        after   == IF a = "Dijkstra" THEN DijkstraRelax(f, n_prime)
                                     ELSE AStarRelax(f, n_prime)
    IN  [after EXCEPT !.todo = Tail(f.todo),
                      !.pc = IF Tail(f.todo) = <<>> THEN "loop" ELSE "expand",
                      !.node_expanded =
                          IF Len(after.OPEN) > Len(f.OPEN) THEN @ + 1 ELSE @]

\* a slip: the for loop moves on only past a successor that changed OPEN
RelaxNoAdvance(a, f) ==
    LET n_prime == Head(f.todo)
        after   == IF a = "Dijkstra" THEN DijkstraRelax(f, n_prime)
                                     ELSE AStarRelax(f, n_prime)
    IN  IF after = f
        THEN f
        ELSE [after EXCEPT !.todo = Tail(f.todo),
                           !.pc = IF Tail(f.todo) = <<>> THEN "loop" ELSE "expand"]

\* one pass of the for loop: the body for the next successor, then the loop test
Relax(a, f) ==
    LET n_prime == Head(f.todo)
        after   == IF a = "Dijkstra" THEN DijkstraRelax(f, n_prime)
                                       ELSE AStarRelax(f, n_prime)
    IN  [after EXCEPT !.todo = Tail(f.todo),
                      !.pc = IF Tail(f.todo) = <<>> THEN "loop" ELSE "expand"]

\* the step search takes from a frame inside the call
Step(a, f) ==
    IF f.pc = "expand" THEN Relax(a, f)
    ELSE IF f.OPEN = <<>> THEN Exhaust(f)
    ELSE Pop(a, f)

RECURSIVE Run(_, _)
\* search run to its return
Run(a, f) == IF f.pc = "done" THEN f ELSE Run(a, Step(a, f))

\* what search(s, gl) returns on a newly constructed engine
FreshSearch(a, s, gl) == Run(a, Begin(a, NewEngine, s, gl)).result

(***************************************************************************)
(* The maps and the calls the model runs.                                  *)
(***************************************************************************)
\* a grid map
Grid(w, h, blocked) ==
    [kind |-> "grid", width |-> w, height |-> h, blocked |-> blocked, arcs |-> <<>>]

\* a graph map on the positions (0,0) .. (n-1,0)
Graph(n, arcs) ==
    [kind |-> "graph", width |-> n, height |-> 1, blocked |-> {}, arcs |-> arcs]

\* the 3 x 3 grids with at most MaxBlocked blocked cells
SmallGrids ==
    {Grid(3, 3, b) : b \in {c \in SUBSET Cells(Grid(3, 3, {})) : Cardinality(c) <= MaxBlocked}}

\* the 5 x 5 open grid
OpenGrid == Grid(5, 5, {})

\* a 3 x 3 grid whose corner (0,0) is surrounded by impassable cells
WalledGrid == Grid(3, 3, {<<1, 0>>, <<0, 1>>, <<1, 1>>})

\* a 2 x 4 open grid, taller than wide
TallGrid == Grid(2, 4, {})

\* a 6 x 4 grid with three blocked cells
MazeGrid == Grid(6, 4, {<<1, 0>>, <<4, 1>>, <<4, 2>>})

\* the arcs u -> v, u < v, of a graph on 4 positions: a step to the next
\* position costs 1.0, a longer one 5.0
ForwardArcs ==
    << <<0, 1, 2>>, <<0, 2, 10>>, <<0, 3, 10>>,
       <<1, 2, 2>>, <<1, 3, 10>>, <<2, 3, 2>> >>

\* the graphs whose arcs are a choice of ForwardArcs, in that order
Graphs ==
    {Graph(4, SelectSeq(ForwardArcs, LAMBDA a : a \in keep)) :
        keep \in SUBSET {ForwardArcs[i] : i \in 1 .. Len(ForwardArcs)}}

\* a graph on which the heuristic of AStar overestimates: the arc 0 -> 2 costs
\* 0.5 although the positions are two columns apart, and the way 1 -> 0 -> 2
\* (4.5) is cheaper than the arc 1 -> 2 (5.0)
DetourGraph == Graph(4, << <<1, 2, 10>>, <<1, 0, 8>>, <<0, 2, 1>>, <<2, 3, 10>> >>)

\* the maps an engine is constructed on
Maps == SmallGrids \cup {OpenGrid, WalledGrid, TallGrid, MazeGrid} \cup Graphs
            \cup {DetourGraph}

\* the positions of a map a state may stand on
FreeCells(m) == Cells(m) \ m.blocked

\* the calls search(start, goal) made on a map, as pairs of positions
Queries(m) ==
    IF m = OpenGrid THEN {<<<<0, 0>>, <<4, 4>>>>, <<<<2, 2>>, <<2, 2>>>>}
    ELSE IF m = WalledGrid THEN {<<<<2, 2>>, <<0, 0>>>>, <<<<0, 0>>, <<2, 2>>>>,
                                 <<<<2, 0>>, <<0, 2>>>>}
    ELSE IF m = MazeGrid THEN {<<<<5, 1>>, <<0, 3>>>>, <<<<0, 3>>, <<5, 1>>>>}
    ELSE IF m = DetourGraph THEN {<<<<1, 0>>, <<3, 0>>>>}
    ELSE FreeCells(m) \X FreeCells(m)

(***************************************************************************)
(* The state machine.                                                      *)
(***************************************************************************)
\* the fields and locals take the values of frame f
Becomes(f) ==
    /\ OPEN' = f.OPEN
    /\ CLOSED' = f.CLOSED
    /\ goal' = f.goal
    /\ node_expanded' = f.node_expanded
    /\ node' = f.node
    /\ todo' = f.todo
    /\ pc' = f.pc
    /\ result' = f.result

\* what the history records of a popped state
PopRecord(n) ==
    [x |-> n.x, y |-> n.y, g |-> n.g, cost |-> n.cost,
     recorded |-> IF alg = "Dijkstra" THEN CLOSED[state_hash(n)] ELSE n.cost]

\* an engine of either class, constructed on one of the maps
Init ==
    /\ map \in Maps
    /\ alg \in {"Dijkstra", "AStar"}
    /\ OPEN = NewEngine.OPEN
    /\ CLOSED = NewEngine.CLOSED
    /\ goal = NewEngine.goal
    /\ node_expanded = NewEngine.node_expanded
    /\ node = NewEngine.node
    /\ todo = NewEngine.todo
    /\ pc = NewEngine.pc
    /\ result = NewEngine.result
    /\ start = None
    /\ calls = 0
    /\ pops = <<>>
    /\ succ_calls = 0

\* the driver calls search(start, goal) with freshly constructed states
Call ==
    /\ pc \in {"idle", "done"}
    /\ \E q \in Queries(map) :
          /\ Becomes(Begin(alg, Frame, NewState(q[1][1], q[1][2]), NewState(q[2][1], q[2][2])))
          /\ start' = NewState(q[1][1], q[1][2])
    /\ calls' = Min(calls + 1, MaxCalls)
    /\ pops' = <<>>
    /\ succ_calls' = 0
    /\ UNCHANGED <<map, alg>>

\* the while loop ends on an empty OPEN
ReturnNoPath ==
    /\ pc = "loop"
    /\ OPEN = <<>>
    /\ Becomes(Exhaust(Frame))
    /\ UNCHANGED <<map, alg, start, calls, pops, succ_calls>>

\* the goal is popped and search returns
PopGoal ==
    /\ pc = "loop"
    /\ OPEN # <<>>
    /\ Eq(heappop(OPEN)[1], goal)
    /\ Becomes(Pop(alg, Frame))
    /\ pops' = Append(pops, PopRecord(heappop(OPEN)[1]))
    /\ UNCHANGED <<map, alg, start, calls, succ_calls>>

\* another state is popped and the map is asked for its successors
PopExpand ==
    /\ pc = "loop"
    /\ OPEN # <<>>
    /\ ~Eq(heappop(OPEN)[1], goal)
    /\ Becomes(Pop(alg, Frame))
    /\ pops' = Append(pops, PopRecord(heappop(OPEN)[1]))
    /\ succ_calls' = succ_calls + 1
    /\ UNCHANGED <<map, alg, start, calls>>

\* Dijkstra's for loop: the successor's key is not in CLOSED
DijkstraPush ==
    /\ pc = "expand"
    /\ alg = "Dijkstra"
    /\ Case(alg, Frame) = "push"
    /\ Becomes(Relax(alg, Frame))
    /\ UNCHANGED <<map, alg, start, calls, pops, succ_calls>>

\* Dijkstra's for loop: the successor's g is below the recorded value
DijkstraImprove ==
    /\ pc = "expand"
    /\ alg = "Dijkstra"
    /\ Case(alg, Frame) = "improve"
    /\ Becomes(Relax(alg, Frame))
    /\ UNCHANGED <<map, alg, start, calls, pops, succ_calls>>

\* Dijkstra's for loop: the successor is no improvement
DijkstraDiscard ==
    /\ pc = "expand"
    /\ alg = "Dijkstra"
    /\ Case(alg, Frame) = "discard"
    /\ Becomes(Relax(alg, Frame))
    /\ UNCHANGED <<map, alg, start, calls, pops, succ_calls>>

\* AStar's for loop: the successor's key is in CLOSED
AStarSkipClosed ==
    /\ pc = "expand"
    /\ alg = "AStar"
    /\ Case(alg, Frame) = "closed"
    /\ Becomes(Relax(alg, Frame))
    /\ UNCHANGED <<map, alg, start, calls, pops, succ_calls>>

\* AStar's for loop: the successor is neither in CLOSED nor in OPEN
AStarPush ==
    /\ pc = "expand"
    /\ alg = "AStar"
    /\ Case(alg, Frame) = "push"
    /\ Becomes(Relax(alg, Frame))
    /\ UNCHANGED <<map, alg, start, calls, pops, succ_calls>>

\* AStar's for loop: an equal state is in OPEN with a higher g
AStarImprove ==
    /\ pc = "expand"
    /\ alg = "AStar"
    /\ Case(alg, Frame) = "improve"
    /\ Becomes(Relax(alg, Frame))
    /\ UNCHANGED <<map, alg, start, calls, pops, succ_calls>>

\* AStar's for loop: an equal state is in OPEN and the successor's g is not lower
AStarKeep ==
    /\ pc = "expand"
    /\ alg = "AStar"
    /\ Case(alg, Frame) = "keep"
    /\ Becomes(Relax(alg, Frame))
    /\ UNCHANGED <<map, alg, start, calls, pops, succ_calls>>

Next ==
    \/ Call
    \/ ReturnNoPath
    \/ PopGoal
    \/ PopExpand
    \/ DijkstraPush
    \/ DijkstraImprove
    \/ DijkstraDiscard
    \/ AStarSkipClosed
    \/ AStarPush
    \/ AStarImprove
    \/ AStarKeep

Spec == Init /\ [][Next]_vars

\* a step of the running search call
SearchStep ==
    \/ ReturnNoPath
    \/ PopGoal
    \/ PopExpand
    \/ DijkstraPush
    \/ DijkstraImprove
    \/ DijkstraDiscard
    \/ AStarSkipClosed
    \/ AStarPush
    \/ AStarImprove
    \/ AStarKeep

\* a search call is running
Searching == pc \in {"loop", "expand"}

\* the running call has a step to take that changes the engine: this is
\* ENABLED <<SearchStep>>_vars, computed with the step function
CanStep == Searching /\ Step(alg, Frame) # Frame

\* search is one synchronous call without suspension points: the interpreter
\* keeps executing a call that was made, while the driver may stop calling.
\* The conjunct is weak fairness of SearchStep, that is
\* []<>~ENABLED <<SearchStep>>_vars \/ []<><<SearchStep>>_vars, with the
\* enabling condition written as CanStep
FairSpec == Init /\ [][Next]_vars /\ ([]<>(~CanStep) \/ []<><<SearchStep>>_vars)

(***************************************************************************)
(* Reference notions the properties are stated with.                       *)
(***************************************************************************)
\* the moves of map m that arrive at position q: pairs <<from, cost>>
MovesInto(m, q) ==
    IF m.kind = "grid"
    THEN {<<p, move_cost(q[1] - p[1], q[2] - p[2])>> :
            p \in {r \in FreeCells(m) : /\ r # q
                                        /\ Abs(q[1] - r[1]) <= 1
                                        /\ Abs(q[2] - r[2]) <= 1}}
    ELSE {<<<<m.arcs[i][1], 0>>, m.arcs[i][3]>> :
            i \in {j \in 1 .. Len(m.arcs) : <<m.arcs[j][2], 0>> = q}}

\* marks a position no path leads to
Unreachable == 0 - 1

\* one round of relaxation of the distance table d over all moves of m
RelaxAll(m, d) ==
    [q \in FreeCells(m) |->
        LET via == {d[mv[1]] + mv[2] :
                      mv \in {w \in MovesInto(m, q) : d[w[1]] # Unreachable}}
            all == via \cup (IF d[q] = Unreachable THEN {} ELSE {d[q]})
        IN  IF all = {} THEN Unreachable ELSE SetMin(all)]

RECURSIVE Distances(_, _)
\* the fixed point of RelaxAll: the least path cost to every position
Distances(m, d) ==
    LET e == RelaxAll(m, d) IN IF e = d THEN d ELSE Distances(m, e)

\* the least cost of a path of m from position s to position t
MinCost(m, s, t) ==
    Distances(m, [q \in FreeCells(m) |-> IF q = s THEN 0 ELSE Unreachable])[t]

\* position of a state
Pos(st) == <<st.x, st.y>>

\* the least cost of a path from the start to the goal of the running call
TrueCost == MinCost(map, Pos(start), Pos(goal))

\* the running call has returned
Returned == pc = "done"

(***************************************************************************)
(* C1.  Dijkstra.search returns the minimum path cost whenever a path from *)
(* start to goal exists, on every map with non-negative edge costs.        *)
(***************************************************************************)
C1_DijkstraReturnsMinCost ==
    (Returned /\ alg = "Dijkstra" /\ TrueCost # Unreachable)
        => result[1] = TrueCost

(***************************************************************************)
(* C2.  On every 8-connected grid with cardinal cost 1.0 and diagonal cost *)
(* 1.5, AStar.search returns the minimum path cost whenever a path from    *)
(* start to goal exists.                                                   *)
(***************************************************************************)
C2_AStarReturnsMinCostOnGrids ==
    (Returned /\ alg = "AStar" /\ map.kind = "grid" /\ TrueCost # Unreachable)
        => result[1] = TrueCost

\* AStar has returned the cost of a path that goes around blocked cells
C2_Witness ==
    /\ Returned /\ alg = "AStar" /\ map = MazeGrid
    /\ result[1] = TrueCost /\ result[1] = 13

\* the class of engine the running one is compared with
OtherClass == IF alg = "Dijkstra" THEN "AStar" ELSE "Dijkstra"

(***************************************************************************)
(* C3.  On every grid with cardinal cost 1.0 and diagonal cost 1.5 and for *)
(* every start and goal with the goal reachable, Dijkstra.search and       *)
(* AStar.search return the same cost.                                      *)
(***************************************************************************)
C3_BothClassesSameCost ==
    (Returned /\ map.kind = "grid" /\ TrueCost # Unreachable)
        => result[1] = FreshSearch(OtherClass, start, goal)[1]

(***************************************************************************)
(* C4.  When the goal is not reachable from the start, search of either    *)
(* class returns exactly (-1, 0), however many states it popped.           *)
(***************************************************************************)
C4_NoPathSentinel ==
    (Returned /\ TrueCost = Unreachable) => result = <<-2, 0>>

\* a search that popped several states before OPEN ran empty
C4_Witness ==
    /\ Returned /\ TrueCost = Unreachable
    /\ Len(pops) >= 2 /\ OPEN = <<>>
    /\ result = <<-2, 0>>

(***************************************************************************)
(* C5.  When start and goal are the same position and start is a fresh     *)
(* State, search of either class returns (0, 1) and never calls the map's  *)
(* successors.                                                             *)
(***************************************************************************)
C5_StartIsGoal ==
    (Returned /\ Eq(start, goal)) => (result = <<0, 1>> /\ succ_calls = 0)

\* the call search((2,2), (2,2)) on the open 5 x 5 grid has returned
C5_Witness ==
    /\ Returned /\ map = OpenGrid
    /\ Pos(start) = <<2, 2>> /\ Pos(goal) = <<2, 2>>
    /\ result = <<0, 1>>

(***************************************************************************)
(* C6.  The expansion counter equals the number of pops made so far in the *)
(* call at every point of the loop, and a search that returns because the  *)
(* goal was popped returns the number of its pops, the goal's included.    *)
(***************************************************************************)
C6_ExpansionsArePops ==
    /\ pc \in {"loop", "expand"} => node_expanded = Len(pops)
    /\ (Returned /\ result[1] # -2) => result[2] = Len(pops)

\* a search that found the goal after popping other states first
C6_Witness ==
    /\ Returned /\ result[1] # -2
    /\ Len(pops) >= 3 /\ result[2] = Len(pops)
    /\ Eq(pops[Len(pops)], goal)

(***************************************************************************)
(* C7.  A call on an engine that has served earlier calls starts from OPEN *)
(* and CLOSED holding nothing of the earlier calls, and returns the pair a *)
(* newly constructed engine returns for the same start and goal.           *)
(***************************************************************************)
C7_ReusableEngine ==
    /\ (pc = "loop" /\ pops = <<>>) =>
          /\ OPEN = <<start>>
          /\ DOMAIN CLOSED = IF alg = "Dijkstra" THEN {state_hash(start)} ELSE {}
    /\ Returned => result = FreshSearch(alg, start, goal)

\* a second or later call on the same engine has returned a path cost
C7_Witness ==
    /\ Returned /\ calls >= 2
    /\ result[1] > 0 /\ result = FreshSearch(alg, start, goal)

(***************************************************************************)
(* C8.  In one Dijkstra search the recorded costs (the values of CLOSED)   *)
(* of the popped states never decrease along the order of the pops.        *)
(***************************************************************************)
C8_DijkstraPopsMonotone ==
    alg = "Dijkstra" =>
        \A i, j \in 1 .. Len(pops) : i < j => pops[i].recorded <= pops[j].recorded


\* the states the program holds: the entries of OPEN, the successors still
\* to handle, the popped node, the goal and the start
ProgramStates ==
    ({OPEN[i] : i \in 1 .. Len(OPEN)} \cup {todo[i] : i \in 1 .. Len(todo)}
        \cup {node, goal, start}) \ {None}

\* a freshly constructed state on every cell of the map
CellStates == {NewState(c[1], c[2]) : c \in Cells(map)}

\* a == b, equal state_hash and equal (x, y) are one and the same relation
SameRelations(a, b) ==
    /\ Eq(a, b) <=> (state_hash(a) = state_hash(b))
    /\ Eq(a, b) <=> (Pos(a) = Pos(b))

ConsistentAt(s) ==
    /\ h_value(Frame, s) >= 0
    /\ Eq(s, goal) => h_value(Frame, s) = 0
    /\ \A k \in 1 .. Len(Offsets) :
          LET t == NewState(s.x + Offsets[k][1], s.y + Offsets[k][2])
          IN  Pos(t) \in Cells(map) =>
                 h_value(Frame, s) <= move_cost(Offsets[k][1], Offsets[k][2])
                                        + h_value(Frame, t)

(***************************************************************************)
(* C10.  For the goal of an AStar search on a grid and every state s:      *)
(* h(s) >= 0, h(s) = 0 when s is at the goal's position, and for each of   *)
(* the eight moves s -> t inside the grid h(s) <= cost of the move + h(t). *)
(* Stated for every state the program holds, at every point of the search, *)
(* and for every cell of the grid when the call has set self.goal.         *)
(***************************************************************************)
C10_HeuristicConsistent ==
    (alg = "AStar" /\ map.kind = "grid" /\ pc # "idle") =>
        /\ \A s \in ProgramStates : ConsistentAt(s)
        /\ pops = <<>> => \A s \in CellStates : ConsistentAt(s)

\* OPEN holds an entry whose cost is g plus a heuristic value with both a
\* straight and a diagonal part
C10_Witness ==
    /\ alg = "AStar" /\ map.kind = "grid"
    /\ \E i \in 1 .. Len(OPEN) :
          /\ Abs(OPEN[i].x - goal.x) # Abs(OPEN[i].y - goal.y)
          /\ Min(Abs(OPEN[i].x - goal.x), Abs(OPEN[i].y - goal.y)) > 0
          /\ OPEN[i].cost = OPEN[i].g + h_value(Frame, OPEN[i])

(***************************************************************************)
(* C11.  Every search call of either class terminates: a running call      *)
(* eventually returns, with the goal popped or with the sentinel.          *)
(***************************************************************************)
C11_SearchTerminates == Searching ~> Returned

\* a call on the 6 x 4 grid has returned after a long run of the loop
C11_Witness ==
    /\ Returned /\ map = MazeGrid
    /\ Len(pops) >= 7 /\ succ_calls >= 6

(***************************************************************************)
(* C12.  In a search of either class no position is popped from OPEN more  *)
(* than once, and the expansion count returned with a found path does not  *)
(* exceed the number of positions of the map.                              *)
(***************************************************************************)
C12_PoppedAtMostOnce ==
    /\ \A i, j \in 1 .. Len(pops) : Eq(pops[i], pops[j]) => i = j
    /\ (Returned /\ result[1] # -2) => result[2] <= Cardinality(Cells(map))

\* the call search((0,0), (4,4)) on the open 5 x 5 grid has returned cost 6.0
\* after at most 25 expansions
C12_Witness ==
    /\ Returned /\ map = OpenGrid
    /\ Pos(start) = <<0, 0>> /\ Pos(goal) = <<4, 4>>
    /\ result[1] = 12 /\ result[2] = Len(pops) /\ result[2] <= 25

(***************************************************************************)
(* C13.  In Dijkstra.search a relaxation acts as a decrease-key: the entry *)
(* of OPEN of a position whose recorded cost was lowered carries the       *)
(* improved cost, so every entry of OPEN has the g and cost that CLOSED    *)
(* records for its position, and every state is popped with them.          *)
(***************************************************************************)
C13_RelaxationIsDecreaseKey ==
    alg = "Dijkstra" =>
        /\ Searching =>
              \A i \in 1 .. Len(OPEN) :
                  /\ OPEN[i].cost = CLOSED[state_hash(OPEN[i])]
                  /\ OPEN[i].g = CLOSED[state_hash(OPEN[i])]
        /\ \A i \in 1 .. Len(pops) :
              /\ pops[i].cost = pops[i].recorded
              /\ pops[i].g = pops[i].recorded

\* the popped state a record of the history stands for
Popped(r) == [x |-> r.x, y |-> r.y, g |-> r.g, h |-> 0, cost |-> r.cost]

\* the elements of a sequence
Range(seq) == {seq[i] : i \in 1 .. Len(seq)}

\* the states the running call has seen so far: the start, the successors of
\* every state expanded earlier, and the successors of the state under
\* expansion that the for loop has gone through
Seen ==
    LET n        == Len(pops)
        earlier  == IF pc = "expand" THEN n - 1 ELSE n
        expanded == {i \in 1 .. earlier : ~Eq(pops[i], goal)}
        current  == IF pc = "expand"
                    THEN LET all == successors(node)
                         IN  {all[i] : i \in 1 .. Len(all) - Len(todo)}
                    ELSE {}
    IN  {start} \cup current \cup UNION {Range(successors(Popped(pops[i]))) : i \in expanded}

(***************************************************************************)
(* C14.  At every point of Dijkstra.search the keys of CLOSED are the keys *)
(* of the states seen so far, and CLOSED[k] is the lowest g among the      *)
(* states of key k seen so far (the start counts with its cost): it is the *)
(* g of one of them and is not above the g of any of them.                 *)
(***************************************************************************)
C14_ClosedIsLowestSeen ==
    (alg = "Dijkstra" /\ pc # "idle") =>
        LET seen == Seen
        IN  /\ DOMAIN CLOSED = {state_hash(s) : s \in seen}
            /\ \A s \in seen : CLOSED[state_hash(s)] <= s.g
            /\ \A k \in DOMAIN CLOSED :
                  \E s \in seen : state_hash(s) = k /\ s.g = CLOSED[k]

\* a recorded value has been lowered by a relaxation on the 6 x 4 grid
C14_Witness ==
    /\ alg = "Dijkstra" /\ map = MazeGrid /\ Searching
    /\ \E s \in Seen : s.g > CLOSED[state_hash(s)]
    /\ \E i \in 1 .. Len(OPEN) : OPEN[i].g > CLOSED[state_hash(OPEN[i])]

(***************************************************************************)
(* C15.  In AStar.search CLOSED holds exactly the positions popped as a    *)
(* non-goal; no entry of OPEN has a key of CLOSED (a closed position is    *)
(* not pushed again), and the g and cost of an entry of CLOSED are those   *)
(* its state was popped with, whatever successors are generated later.     *)
(***************************************************************************)
C15_ClosedIsFinal ==
    (alg = "AStar" /\ pc # "idle") =>
        /\ DOMAIN CLOSED =
              {state_hash(pops[i]) : i \in {j \in 1 .. Len(pops) : ~Eq(pops[j], goal)}}
        /\ \A i \in 1 .. Len(OPEN) : state_hash(OPEN[i]) \notin DOMAIN CLOSED
        /\ \A i \in 1 .. Len(pops) :
              ~Eq(pops[i], goal) =>
                  /\ CLOSED[state_hash(pops[i])].g = pops[i].g
                  /\ CLOSED[state_hash(pops[i])].cost = pops[i].cost

\* the for loop has gone through a successor of strictly lower g than the
\* entry of CLOSED of its position
C15_Witness ==
    /\ alg = "AStar" /\ pc # "idle"
    /\ \E s \in Seen :
          /\ state_hash(s) \in DOMAIN CLOSED
          /\ s.g < CLOSED[state_hash(s)].g

\* the sequence heap is a min-heap on cost: no entry is less than its parent
IsHeap(heap) == \A i \in 2 .. Len(heap) : ~Lt(heap[i], heap[i \div 2])

(***************************************************************************)
(* C16.  In AStar.search, when the successor the for loop is at is equal   *)
(* by position to an entry of OPEN: if its g is strictly lower, that entry *)
(* gets the successor's g and the cost g + h of the position, the other    *)
(* entries stay, and OPEN is a min-heap again; otherwise OPEN and CLOSED   *)
(* are unchanged.  In both cases the length of OPEN is unchanged.          *)
(***************************************************************************)
C16_InOpenUpdate ==
    [][(alg = "AStar" /\ pc = "expand" /\ IndexInOpen(OPEN, Head(todo)) # 0) =>
          LET n_prime == Head(todo)
              old     == OPEN[IndexInOpen(OPEN, n_prime)]
              new     == [old EXCEPT !.g = n_prime.g,
                                     !.cost = n_prime.g + h_value(Frame, n_prime)]
          IN  /\ Len(OPEN') = Len(OPEN)
              /\ IF n_prime.g < old.g
                 THEN /\ Range(OPEN') = (Range(OPEN) \ {old}) \cup {new}
                      /\ IsHeap(OPEN')
                      /\ CLOSED' = CLOSED
                 ELSE OPEN' = OPEN /\ CLOSED' = CLOSED]_vars

\* the for loop is at a successor of strictly lower g than the entry of OPEN
\* of its position, which is not the root of a heap of three or more entries
C16_Witness ==
    /\ alg = "AStar" /\ pc = "expand" /\ Len(OPEN) >= 3
    /\ IsHeap(OPEN)
    /\ IndexInOpen(OPEN, Head(todo)) > 1
    /\ Head(todo).g < OPEN[IndexInOpen(OPEN, Head(todo))].g

\* acc[k + 1] being the positions that sequences of moves of m of total cost k
\* lead to from position s, for every k < Len(acc): the positions that
\* sequences of moves of total cost c lead to
RECURSIVE ReachedAtFrom(_, _, _, _)
ReachedAtFrom(m, s, c, acc) ==
    LET k    == Len(acc)
        next == {q \in FreeCells(m) :
                   \E mv \in MovesInto(m, q) :
                       mv[2] <= k /\ mv[1] \in acc[k - mv[2] + 1]}
    IN  IF k = c + 1 THEN acc[c + 1]
        ELSE ReachedAtFrom(m, s, c, Append(acc, next))

\* the positions at the end of the sequences of moves of m that start at
\* position s and whose costs add up to c
ReachedAt(m, s, c) == ReachedAtFrom(m, s, c, <<{s}>>)

(***************************************************************************)
(* C17.  A cost other than -1 returned by Dijkstra.search is the total     *)
(* cost of a sequence of moves of the map from the start to the goal, and  *)
(* so is not below the minimum path cost.                                  *)
(***************************************************************************)
C17_DijkstraSound ==
    (Returned /\ alg = "Dijkstra" /\ result[1] # -2) =>
        /\ Pos(goal) \in ReachedAt(map, Pos(start), result[1])
        /\ TrueCost # Unreachable
        /\ result[1] >= TrueCost

\* Dijkstra has returned 7.0 on the 6 x 4 grid, the cost of a path that is
\* not a cheapest one
C17_Witness ==
    /\ Returned /\ alg = "Dijkstra" /\ map = MazeGrid
    /\ result[1] = 14 /\ TrueCost = 13
    /\ Pos(goal) \in ReachedAt(map, Pos(start), 14)

(***************************************************************************)
(* C18.  In Dijkstra.search the value CLOSED records for a position is not *)
(* changed after the position has been popped: it stays the value recorded *)
(* at the moment of the pop.                                               *)
(***************************************************************************)
C18_ClosedFixedAfterPop ==
    (alg = "Dijkstra" /\ pc # "idle") =>
        \A i \in 1 .. Len(pops) : CLOSED[state_hash(pops[i])] = pops[i].recorded

\* on the 6 x 4 grid a state was popped with a g above its recorded value, and
\* a position popped earlier was generated again by a later expansion
C18_Witness ==
    /\ alg = "Dijkstra" /\ map = MazeGrid /\ Returned
    /\ \E k \in 1 .. Len(pops) : pops[k].g > pops[k].recorded
    /\ \E i, j \in 1 .. Len(pops) - 1 :
          /\ i < j
          /\ \E s \in Range(successors(Popped(pops[j]))) : Eq(s, pops[i])

(***************************************************************************)
(* C19.  Throughout AStar.search OPEN has at most one entry per position,  *)
(* no position is in OPEN and in CLOSED at the same time, and every entry  *)
(* of OPEN other than the start pushed at the beginning of the call has    *)
(* cost = g + h.                                                           *)
(***************************************************************************)
C19_AStarOpenInvariants ==
    (alg = "AStar" /\ pc # "idle") =>
        /\ \A i, j \in 1 .. Len(OPEN) : Eq(OPEN[i], OPEN[j]) => i = j
        /\ \A i \in 1 .. Len(OPEN) :
              \A k \in DOMAIN CLOSED : ~Eq(OPEN[i], CLOSED[k])
        /\ \A i \in 1 .. Len(OPEN) :
              \/ pops = <<>> /\ OPEN[i] = start
              \/ OPEN[i].cost = OPEN[i].g + h_value(Frame, OPEN[i])

\* OPEN has four or more entries, one of them of a position generated a second
\* time with a higher g, and CLOSED has two or more
C19_Witness ==
    /\ alg = "AStar" /\ Searching
    /\ Len(OPEN) >= 4 /\ Cardinality(DOMAIN CLOSED) >= 2
    /\ \E i \in 1 .. Len(OPEN) :
          /\ OPEN[i].g > 0 /\ OPEN[i].cost > OPEN[i].g
          /\ \E s \in Seen : Eq(OPEN[i], s) /\ OPEN[i].g < s.g

=============================================================================
